---- MODULE Spec2Model ----
(***************************************************************************)
(* TorchPPOOptimizer (mlagents/trainers/ppo/optimizer_torch.py): the PPO   *)
(* loss functions and the update step.                                     *)
(*                                                                         *)
(* Numbers.  Real numbers are exact rationals <<num, den>> with den > 0,   *)
(* kept in lowest terms.  The learning rate is counted in units of 1e-10   *)
(* (its floor is then 1); epsilon, beta, values, returns and advantages    *)
(* are plain rationals.  A log-probability is an integer k standing for    *)
(* k * ln(11/10), so that exp of a difference of log-probabilities is the  *)
(* rational (11/10)^d.                                                     *)
(* Tensors.  A 1-D tensor is a sequence of rationals; the 2-D tensors      *)
(* log_probs and action_probs are sequences of rows.                       *)
(***************************************************************************)
EXTENDS Integers, Sequences, FiniteSets, TLC

VARIABLES
    \* configuration, fixed by __init__
    decay_schedule, hyperparameters, max_steps, reward_signals, sequence_length,
    \* the policy's global step counter (external, monotonic)
    current_step,
    \* torch.optim.Adam and the network it updates
    opt_lr, grads, moments, params,
    \* the update call in progress: position and locals
    pc, batch, step_reads,
    decay_learning_rate, decay_epsilon, decay_beta,
    old_values, returns, memories,
    log_probs, values, value_loss, policy_loss, update_stats,
    \* bookkeeping of the calls made so far
    calls, completed, trace, pre, outcome, prev_policy_loss

config_vars == <<decay_schedule, hyperparameters, max_steps, reward_signals, sequence_length>>
optim_vars == <<opt_lr, grads, moments, params>>
local_vars == <<batch, step_reads, decay_learning_rate, decay_epsilon, decay_beta,
                old_values, returns, memories, log_probs, values, value_loss,
                policy_loss, update_stats>>
book_vars == <<calls, completed, trace, pre, outcome, prev_policy_loss>>
vars == <<config_vars, current_step, optim_vars, pc, local_vars, book_vars>>

---------------------------------------------------------------------------
(* Bounds *)

\* largest number of entries of a tensor handed to a loss function
MaxLen == 2
\* largest length of the batch's memory field
MaxMem == 4
\* largest number of update calls in a run
MaxCalls == 2
\* largest value of the global step counter
MaxStep == 3

---------------------------------------------------------------------------
(* Exact rational arithmetic *)

Abs(x) == IF x < 0 THEN -x ELSE x

RECURSIVE GCD(_, _)
GCD(a, b) == IF b = 0 THEN a ELSE GCD(b, a % b)

R(n, d) ==
    LET g == GCD(Abs(n), Abs(d))
        s == IF d < 0 THEN -1 ELSE 1
    IN  <<(s * n) \div g, (s * d) \div g>>

Zero == R(0, 1)
One == R(1, 1)
Half == R(1, 2)

\* the least common denominator of a and b
LCD(a, b) == (a[2] \div GCD(a[2], b[2])) * b[2]

\* the numerator of a over the denominator l, a multiple of a's
Over(a, l) == a[1] * (l \div a[2])

RAdd(a, b) == LET l == LCD(a, b) IN R(Over(a, l) + Over(b, l), l)
RNeg(a) == <<-a[1], a[2]>>
RSub(a, b) == RAdd(a, RNeg(b))
RMul(a, b) ==
    LET g == GCD(Abs(a[1]), b[2])
        h == GCD(Abs(b[1]), a[2])
    IN  R((a[1] \div g) * (b[1] \div h), (a[2] \div h) * (b[2] \div g))
RLe(a, b) == LET l == LCD(a, b) IN Over(a, l) <= Over(b, l)
RLt(a, b) == LET l == LCD(a, b) IN Over(a, l) < Over(b, l)
RMin(a, b) == IF RLe(a, b) THEN a ELSE b
RMax(a, b) == IF RLe(a, b) THEN b ELSE a
RAbs(a) == <<Abs(a[1]), a[2]>>
RSquare(a) == RMul(a, a)

\* torch.clamp(x, lo, hi)
Clamp(x, lo, hi) == RMin(RMax(x, lo), hi)

RECURSIVE RSum(_)
RSum(t) == IF Len(t) = 0 THEN Zero ELSE RAdd(t[1], RSum(Tail(t)))

\* torch.mean of a non-empty 1-D tensor
Mean(t) == RMul(RSum(t), R(1, Len(t)))

RECURSIVE Flatten(_)
Flatten(m) == IF Len(m) = 0 THEN <<>> ELSE m[1] \o Flatten(Tail(m))

\* torch.mean of a non-empty 2-D tensor: over all of its entries
Mean2(m) == Mean(Flatten(m))

RECURSIVE SetToSeq(_)
SetToSeq(S) ==
    IF S = {} THEN <<>>
    ELSE LET x == CHOOSE y \in S : TRUE IN <<x>> \o SetToSeq(S \ {x})

RECURSIVE Pow(_, _)
Pow(b, k) == IF k = 0 THEN One ELSE RMul(b, Pow(b, k - 1))

\* torch.exp of a log-probability difference d (in units of ln(11/10))
Exp(d) == IF d >= 0 THEN Pow(R(11, 10), d) ELSE Pow(R(10, 11), -d)

\* broadcasting of 1-D tensors: the longer length, a tensor of length 1
\* repeating its entry
BLen(a, b) == IF Len(a) >= Len(b) THEN Len(a) ELSE Len(b)
At(t, i) == IF Len(t) = 1 THEN t[1] ELSE t[i]

---------------------------------------------------------------------------
(* ppo_value_loss *)

\* the common length the tensors of one head broadcast to
HeadLen(head, old_val_tensor, returns_tensor) ==
    LET m == BLen(head, old_val_tensor)
    IN  IF m >= Len(returns_tensor) THEN m ELSE Len(returns_tensor)

\* the element-wise operations of lines 58-63 are defined (shapes broadcast)
HeadShapesOk(head, old_val_tensor, returns_tensor) ==
    LET n == HeadLen(head, old_val_tensor, returns_tensor)
    IN  /\ n >= 1
        /\ \A t \in {head, old_val_tensor, returns_tensor} : Len(t) \in {1, n}

\* v_opt with torch.min in place of torch.max at line 63
v_opt_Min(head, old_val_tensor, returns_tensor, epsilon) ==
    [i \in 1..HeadLen(head, old_val_tensor, returns_tensor) |->
        LET clipped_value_estimate ==
                RAdd(At(old_val_tensor, i),
                     Clamp(RSub(At(head, i), At(old_val_tensor, i)),
                           RNeg(epsilon), epsilon))
            v_opt_a == RSquare(RSub(At(returns_tensor, i), At(head, i)))
            v_opt_b == RSquare(RSub(At(returns_tensor, i), clipped_value_estimate))
        IN  RMin(v_opt_a, v_opt_b)]

\* the per-step maximum of the two squared errors, lines 58-63
v_opt(head, old_val_tensor, returns_tensor, epsilon) ==
    [i \in 1..HeadLen(head, old_val_tensor, returns_tensor) |->
        LET clipped_value_estimate ==
                RAdd(At(old_val_tensor, i),
                     Clamp(RSub(At(head, i), At(old_val_tensor, i)),
                           RNeg(epsilon), epsilon))
            v_opt_a == RSquare(RSub(At(returns_tensor, i), At(head, i)))
            v_opt_b == RSquare(RSub(At(returns_tensor, i), clipped_value_estimate))
        IN  RMax(v_opt_a, v_opt_b)]

\* the loss of one head, lines 56-63
head_value_loss(head, old_val_tensor, returns_tensor, epsilon) ==
    Mean(v_opt(head, old_val_tensor, returns_tensor, epsilon))

\* ppo_value_loss raises: a head without old values or returns (KeyError at
\* lines 56-57), tensors that do not broadcast, or no head at all
\* (torch.stack of an empty list at line 65)
ValueLossRaises(vals, old_vals, rets) ==
    \/ DOMAIN vals = {}
    \/ ~(DOMAIN vals \subseteq DOMAIN old_vals)
    \/ ~(DOMAIN vals \subseteq DOMAIN rets)
    \/ \E name \in DOMAIN vals \cap DOMAIN old_vals \cap DOMAIN rets :
           ~HeadShapesOk(vals[name], old_vals[name], rets[name])

\* lines 54-66: the mean, over the heads of `values`, of the head losses
ppo_value_loss(vals, old_vals, rets, epsilon) ==
    LET names == SetToSeq(DOMAIN vals)
        value_losses == [k \in 1..Len(names) |->
            head_value_loss(vals[names[k]], old_vals[names[k]],
                            rets[names[k]], epsilon)]
    IN  Mean(value_losses)

---------------------------------------------------------------------------
(* ppo_policy_loss *)

\* line 78: the clip range of the policy loss
policy_decay_epsilon == hyperparameters.epsilon

\* line 80: the probability ratios
r_theta(lp, old_lp) ==
    [i \in 1..Len(lp) |-> [j \in 1..Len(lp[i]) |-> Exp(lp[i][j] - old_lp[i][j])]]

\* p_opt with the clipped ratio not multiplied by the advantage at line 83
p_opt_ClippedWithoutAdvantage(advantages, lp, old_lp) ==
    LET r == r_theta(lp, old_lp)
    IN  [i \in 1..Len(lp) |-> [j \in 1..Len(lp[i]) |->
            LET p_opt_a == RMul(r[i][j], advantages[i])
                p_opt_b == Clamp(r[i][j],
                                 RSub(One, policy_decay_epsilon),
                                 RAdd(One, policy_decay_epsilon))
            IN  RMin(p_opt_a, p_opt_b)]]

\* lines 81-84: the per-entry minimum of the unclipped and the clipped term;
\* advantages.unsqueeze(-1) gives every entry of row i the advantage of step i
p_opt(advantages, lp, old_lp) ==
    LET r == r_theta(lp, old_lp)
    IN  [i \in 1..Len(lp) |-> [j \in 1..Len(lp[i]) |->
            LET p_opt_a == RMul(r[i][j], advantages[i])
                p_opt_b == RMul(Clamp(r[i][j],
                                      RSub(One, policy_decay_epsilon),
                                      RAdd(One, policy_decay_epsilon)),
                                advantages[i])
            IN  RMin(p_opt_a, p_opt_b)]]

\* ppo_policy_loss without the negation at line 85
ppo_policy_loss_NotNegated(advantages, lp, old_lp, masks) ==
    Mean2(p_opt(advantages, lp, old_lp))

\* lines 76-86 (masks is not used by the code)
ppo_policy_loss(advantages, lp, old_lp, masks) ==
    RNeg(Mean2(p_opt(advantages, lp, old_lp)))

---------------------------------------------------------------------------
(* ModelUtils.get_decayed_parameter *)

\* the linear interpolation from initial_value at step 0 to min_value at
\* max_step, clamped to [min_value, initial_value]
polynomial_decay(initial_value, min_value, max_step, global_step) ==
    LET s == IF global_step <= max_step THEN global_step ELSE max_step
        decayed_value ==
            RAdd(RMul(RSub(initial_value, min_value), R(max_step - s, max_step)),
                 min_value)
    IN  Clamp(decayed_value, min_value, initial_value)

get_decayed_parameter(schedule, initial_value, min_value, max_step, global_step) ==
    IF schedule = "constant" THEN initial_value
    ELSE polynomial_decay(initial_value, min_value, max_step, global_step)

\* the floors update passes: 1e-10 (one unit of learning rate), 0.1, 1e-5
LearningRateFloor == R(1, 1)
EpsilonFloor == R(1, 10)
BetaFloor == R(1, 100000)

---------------------------------------------------------------------------
(* update *)

EmptyDict == [name \in {} |-> <<>>]

NoStats == [policy_loss |-> Zero, value_loss |-> Zero, learning_rate |-> Zero,
            epsilon |-> Zero, beta |-> Zero]

NoBatch == [advantages |-> <<>>, action_probs |-> <<>>, masks |-> <<>>,
            value_estimates |-> EmptyDict, returns |-> EmptyDict, memory |-> <<>>]

NoMemories == [stacked |-> FALSE, data |-> <<>>]

\* the locals of update go out of scope when the call ends
LocalsDropped ==
    /\ batch' = NoBatch
    /\ step_reads' = <<>>
    /\ decay_learning_rate' = Zero
    /\ decay_epsilon' = Zero
    /\ decay_beta' = Zero
    /\ old_values' = EmptyDict
    /\ returns' = EmptyDict
    /\ memories' = NoMemories
    /\ log_probs' = <<>>
    /\ values' = EmptyDict
    /\ value_loss' = Zero
    /\ policy_loss' = Zero
    /\ update_stats' = NoStats

\* what torch.optim.Adam and the network hold
OptimizerState == [lr |-> opt_lr, grads |-> grads, moments |-> moments, params |-> params]

\* line 102: self.policy.get_current_step()
get_current_step == current_step

\* UpdateDecayLearningRate with the learning rate applied to the optimizer as
\* soon as it is computed
UpdateDecayLearningRate_AppliesRate(b) ==
    /\ pc = "idle"
    /\ calls < MaxCalls
    /\ calls' = calls + 1
    /\ batch' = b
    /\ step_reads' = <<get_current_step>>
    /\ decay_learning_rate' =
           get_decayed_parameter(decay_schedule, hyperparameters.learning_rate,
                                 LearningRateFloor, max_steps, get_current_step)
    /\ opt_lr' = decay_learning_rate'
    /\ pre' = OptimizerState
    /\ outcome' = "running"
    /\ trace' = <<"decay">>
    /\ pc' = "decay_epsilon"
    /\ UNCHANGED <<config_vars, current_step, grads, moments, params, decay_epsilon,
                   decay_beta, old_values, returns, memories, log_probs, values,
                   value_loss, policy_loss, update_stats, completed, prev_policy_loss>>

\* lines 97-103, entered from Idle with a batch
UpdateDecayLearningRate(b) ==
    /\ pc = "idle"
    /\ calls < MaxCalls
    /\ calls' = calls + 1
    /\ batch' = b
    /\ step_reads' = <<get_current_step>>
    /\ decay_learning_rate' =
           get_decayed_parameter(decay_schedule, hyperparameters.learning_rate,
                                 LearningRateFloor, max_steps, get_current_step)
    /\ pre' = OptimizerState
    /\ outcome' = "running"
    /\ trace' = <<"decay">>
    /\ pc' = "decay_epsilon"
    /\ UNCHANGED <<config_vars, current_step, optim_vars, decay_epsilon, decay_beta,
                   old_values, returns, memories, log_probs, values, value_loss,
                   policy_loss, update_stats, completed, prev_policy_loss>>

\* UpdateDecayEpsilon with the floor of beta passed for epsilon
UpdateDecayEpsilon_BetaFloor ==
    /\ pc = "decay_epsilon"
    /\ step_reads' = Append(step_reads, get_current_step)
    /\ decay_epsilon' =
           get_decayed_parameter(decay_schedule, hyperparameters.epsilon,
                                 BetaFloor, max_steps, get_current_step)
    /\ pc' = "decay_beta"
    /\ UNCHANGED <<config_vars, current_step, optim_vars, batch, decay_learning_rate,
                   decay_beta, old_values, returns, memories, log_probs, values,
                   value_loss, policy_loss, update_stats, book_vars>>

\* lines 104-110
UpdateDecayEpsilon ==
    /\ pc = "decay_epsilon"
    /\ step_reads' = Append(step_reads, get_current_step)
    /\ decay_epsilon' =
           get_decayed_parameter(decay_schedule, hyperparameters.epsilon,
                                 EpsilonFloor, max_steps, get_current_step)
    /\ pc' = "decay_beta"
    /\ UNCHANGED <<config_vars, current_step, optim_vars, batch, decay_learning_rate,
                   decay_beta, old_values, returns, memories, log_probs, values,
                   value_loss, policy_loss, update_stats, book_vars>>

\* lines 111-117
UpdateDecayBeta ==
    /\ pc = "decay_beta"
    /\ step_reads' = Append(step_reads, get_current_step)
    /\ decay_beta' =
           get_decayed_parameter(decay_schedule, hyperparameters.beta,
                                 BetaFloor, max_steps, get_current_step)
    /\ pc' = "assemble"
    /\ UNCHANGED <<config_vars, current_step, optim_vars, batch, decay_learning_rate,
                   decay_epsilon, old_values, returns, memories, log_probs, values,
                   value_loss, policy_loss, update_stats, book_vars>>

\* range(0, n, step) as the list of its values
RECURSIVE Range(_, _, _)
Range(start, stop, step) ==
    IF start >= stop THEN <<>> ELSE <<start>> \o Range(start + step, stop, step)

\* AssembleMemories with a stride of 1 in place of sequence_length
AssembleMemories_EveryStep(memory, seq_len) ==
    LET idx == Range(0, Len(memory), 1)
        picked == [k \in 1..Len(idx) |-> memory[idx[k] + 1]]
    IN  [stacked |-> Len(picked) > 0, data |-> picked]

\* lines 133-138: one snapshot per stride of sequence_length; stacked only
\* when there is one at least (memory[i] of the code is memory[i + 1] here)
AssembleMemories(memory, seq_len) ==
    LET idx == Range(0, Len(memory), seq_len)
        picked == [k \in 1..Len(idx) |-> memory[idx[k] + 1]]
    IN  [stacked |-> Len(picked) > 0, data |-> picked]

\* an exception leaves update: the call ends, nothing is returned
Raise ==
    /\ pc' = "idle"
    /\ outcome' = "raised"
    /\ LocalsDropped
    /\ UNCHANGED <<calls, completed, pre, prev_policy_loss>>

\* lines 118-148: the batch's fields as tensors
UpdateAssemble ==
    /\ pc = "assemble"
    /\ old_values' = [name \in reward_signals |-> batch.value_estimates[name]]
    /\ returns' = [name \in reward_signals |-> batch.returns[name]]
    /\ memories' = AssembleMemories(batch.memory, sequence_length)
    /\ trace' = Append(trace, "assemble")
    /\ pc' = "evaluate"
    /\ UNCHANGED <<config_vars, current_step, optim_vars, batch, step_reads,
                   decay_learning_rate, decay_epsilon, decay_beta, log_probs, values,
                   value_loss, policy_loss, update_stats, calls, completed, pre,
                   outcome, prev_policy_loss>>

\* a batch field that list_to_tensor cannot convert
UpdateAssembleRaise ==
    /\ pc = "assemble"
    /\ trace' = Append(trace, "assemble")
    /\ Raise
    /\ UNCHANGED <<config_vars, current_step, optim_vars>>

\* lines 149-156: the one call of self.policy.evaluate_actions; lp and vals
\* are what the network returns
UpdateEvaluate(lp, vals) ==
    /\ pc = "evaluate"
    /\ log_probs' = lp
    /\ values' = vals
    /\ trace' = Append(trace, "evaluate")
    /\ pc' = "loss"
    /\ UNCHANGED <<config_vars, current_step, optim_vars, batch, step_reads,
                   decay_learning_rate, decay_epsilon, decay_beta, old_values, returns,
                   memories, value_loss, policy_loss, update_stats, calls, completed,
                   pre, outcome, prev_policy_loss>>

UpdateEvaluateRaise ==
    /\ pc = "evaluate"
    /\ trace' = Append(trace, "evaluate")
    /\ Raise
    /\ UNCHANGED <<config_vars, current_step, optim_vars>>

\* lines 157-164
UpdateLoss ==
    /\ pc = "loss"
    /\ ~ValueLossRaises(values, old_values, returns)
    /\ value_loss' = ppo_value_loss(values, old_values, returns, decay_epsilon)
    /\ policy_loss' = ppo_policy_loss(batch.advantages, log_probs,
                                      batch.action_probs, batch.masks)
    /\ trace' = Append(trace, "loss")
    /\ pc' = "apply_learning_rate"
    /\ UNCHANGED <<config_vars, current_step, optim_vars, batch, step_reads,
                   decay_learning_rate, decay_epsilon, decay_beta, old_values, returns,
                   memories, log_probs, values, update_stats, calls, completed, pre,
                   outcome, prev_policy_loss>>

UpdateLossRaise ==
    /\ pc = "loss"
    /\ ValueLossRaises(values, old_values, returns)
    /\ trace' = Append(trace, "loss")
    /\ Raise
    /\ UNCHANGED <<config_vars, current_step, optim_vars>>

\* line 167: ModelUtils.apply_learning_rate
UpdateApplyLearningRate ==
    /\ pc = "apply_learning_rate"
    /\ opt_lr' = decay_learning_rate
    /\ trace' = Append(trace, "apply_learning_rate")
    /\ pc' = "zero_grad"
    /\ UNCHANGED <<config_vars, current_step, grads, moments, params, local_vars,
                   calls, completed, pre, outcome, prev_policy_loss>>

\* UpdateZeroGrad without the call of zero_grad
UpdateZeroGrad_Skipped ==
    /\ pc = "zero_grad"
    /\ trace' = Append(trace, "zero_grad")
    /\ pc' = "backward"
    /\ UNCHANGED <<config_vars, current_step, optim_vars, local_vars,
                   calls, completed, pre, outcome, prev_policy_loss>>

\* line 168: self.optimizer.zero_grad()
UpdateZeroGrad ==
    /\ pc = "zero_grad"
    /\ grads' = {}
    /\ trace' = Append(trace, "zero_grad")
    /\ pc' = "backward"
    /\ UNCHANGED <<config_vars, current_step, opt_lr, moments, params, local_vars,
                   calls, completed, pre, outcome, prev_policy_loss>>

\* line 169: loss.backward() adds this call's gradient to the accumulated ones
UpdateBackward ==
    /\ pc = "backward"
    /\ grads' = grads \cup {calls}
    /\ trace' = Append(trace, "backward")
    /\ pc' = "step"
    /\ UNCHANGED <<config_vars, current_step, opt_lr, moments, params, local_vars,
                   calls, completed, pre, outcome, prev_policy_loss>>

\* loss.backward() raises: the gradient of this call has reached none or
\* some of the parameters
UpdateBackwardRaise ==
    /\ pc = "backward"
    /\ grads' \in {grads, grads \cup {calls}}
    /\ trace' = Append(trace, "backward")
    /\ Raise
    /\ UNCHANGED <<config_vars, current_step, opt_lr, moments, params>>

\* line 171: self.optimizer.step() folds the accumulated gradients into the
\* moment estimates and moves the parameters (params counts the versions of
\* the network parameters, moments lists the gradients folded in so far)
UpdateStep ==
    /\ pc = "step"
    /\ moments' = Append(moments, grads)
    /\ params' = params + 1
    /\ trace' = Append(trace, "step")
    /\ pc' = "stats"
    /\ UNCHANGED <<config_vars, current_step, opt_lr, grads, local_vars,
                   calls, completed, pre, outcome, prev_policy_loss>>

\* lines 172-178
UpdateStats ==
    /\ pc = "stats"
    /\ update_stats' = [policy_loss |-> RAbs(policy_loss),
                        value_loss |-> value_loss,
                        learning_rate |-> decay_learning_rate,
                        epsilon |-> decay_epsilon,
                        beta |-> decay_beta]
    /\ pc' = "return"
    /\ UNCHANGED <<config_vars, current_step, optim_vars, batch, step_reads,
                   decay_learning_rate, decay_epsilon, decay_beta, old_values, returns,
                   memories, log_probs, values, value_loss, policy_loss, book_vars>>

\* line 180: update_stats goes to the caller and the orchestrator is idle again
UpdateReturn ==
    /\ pc = "return"
    /\ completed' = Append(completed, calls)
    /\ outcome' = "returned"
    /\ pc' = "idle"
    /\ LocalsDropped
    /\ UNCHANGED <<config_vars, current_step, optim_vars, calls, trace, pre,
                   prev_policy_loss>>

\* the global step counter advances, between update calls or while one is
\* reading it (update reads it at lines 102, 109 and 116 and never after, so
\* an advance later in the call is the same as one after the call)
IncrementStep ==
    /\ pc \in {"idle", "decay_epsilon", "decay_beta"}
    /\ current_step < MaxStep
    /\ current_step' = current_step + 1
    /\ UNCHANGED <<config_vars, optim_vars, pc, local_vars, book_vars>>

---------------------------------------------------------------------------
(* Initial states and inputs *)

AllSignals == {"extrinsic", "curiosity"}

\* learning_rate 3e-4 or 1e-3 (in units of 1e-10); epsilon 0.2, 0.05 or 0.3;
\* beta 5e-3 or 1e-6
HyperparameterSets ==
    { [learning_rate |-> R(3000000, 1), epsilon |-> R(1, 5), beta |-> R(1, 200)],
      [learning_rate |-> R(3000000, 1), epsilon |-> R(1, 20), beta |-> R(1, 200)],
      [learning_rate |-> R(10000000, 1), epsilon |-> R(3, 10), beta |-> R(1, 1000000)] }

DefaultHyperparameters ==
    [learning_rate |-> R(3000000, 1), epsilon |-> R(1, 5), beta |-> R(1, 200)]

\* the state __init__ leaves (lines 24-39): configuration, a fresh Adam
\* optimizer with the configured learning rate, no call made yet
Constructed(schedule, hp, steps, signals, seq_len) ==
    /\ decay_schedule = schedule
    /\ hyperparameters = hp
    /\ max_steps = steps
    /\ reward_signals = signals
    /\ sequence_length = seq_len
    /\ current_step = 0
    /\ opt_lr = hp.learning_rate
    /\ grads = {}
    /\ moments = <<>>
    /\ params = 0
    /\ calls = 0
    /\ completed = <<>>
    /\ trace = <<>>
    /\ pre = [lr |-> hp.learning_rate, grads |-> {}, moments |-> <<>>, params |-> 0]
    /\ outcome = "none"
    /\ prev_policy_loss = Zero

\* no update call in progress
NoCall ==
    /\ pc = "idle"
    /\ batch = NoBatch
    /\ step_reads = <<>>
    /\ decay_learning_rate = Zero
    /\ decay_epsilon = Zero
    /\ decay_beta = Zero
    /\ old_values = EmptyDict
    /\ returns = EmptyDict
    /\ memories = NoMemories
    /\ log_probs = <<>>
    /\ values = EmptyDict
    /\ value_loss = Zero
    /\ policy_loss = Zero
    /\ update_stats = NoStats

\* a batch of n steps, the same at every step; memory is the list of the
\* snapshots' indices
Batch(n, memory) ==
    [advantages |-> [i \in 1..n |-> One],
     action_probs |-> [i \in 1..n |-> <<0>>],
     masks |-> [i \in 1..n |-> 1],
     value_estimates |-> [name \in AllSignals |-> [i \in 1..n |->
                             IF name = "extrinsic" THEN Zero ELSE R(1, 10)]],
     returns |-> [name \in AllSignals |-> [i \in 1..n |->
                     IF name = "extrinsic" THEN Half ELSE Zero]],
     memory |-> memory]

\* the indices 0 .. n-1 as a list
Indices(n) == [i \in 1..n |-> i - 1]

Batches == {Batch(1, Indices(1))}

\* what evaluate_actions may return for the batch: a row of log-probabilities
\* per step, and value heads for any set of names
HeadOutputs == {[name \in H |-> [i \in 1..Len(batch.advantages) |-> R(3, 10)]] :
                   H \in SUBSET AllSignals}
LogProbOutputs == {[i \in 1..Len(batch.advantages) |-> <<2>>]}

Init ==
    \E schedule \in {"constant", "linear"}, hp \in HyperparameterSets,
       steps \in {2, 3}, signals \in {{"extrinsic"}, AllSignals, {}} :
        Constructed(schedule, hp, steps, signals, 1) /\ NoCall

\* the steps of update after its entry
UpdateSteps ==
    \/ UpdateDecayEpsilon
    \/ UpdateDecayBeta
    \/ UpdateAssemble
    \/ UpdateAssembleRaise
    \/ UpdateEvaluateRaise
    \/ UpdateLoss
    \/ UpdateLossRaise
    \/ UpdateApplyLearningRate
    \/ UpdateZeroGrad
    \/ UpdateBackward
    \/ UpdateBackwardRaise
    \/ UpdateStep
    \/ UpdateStats
    \/ UpdateReturn

Next ==
    \/ \E b \in Batches : UpdateDecayLearningRate(b)
    \/ \E lp \in LogProbOutputs, vals \in HeadOutputs : UpdateEvaluate(lp, vals)
    \/ UpdateSteps
    \/ IncrementStep

Spec == Init /\ [][Next]_vars

---------------------------------------------------------------------------
(* The update call on recurrent batches, at a global step that stays put:   *)
(* memory fields of every length and every sequence_length                  *)

\* largest sequence_length
MaxSeqLen == 3

MemoryBatches ==
    {Batch(n, mem) : n \in 1..MaxMem, mem \in {<<>>}} \cup
    {Batch(n, Indices(n)) : n \in 1..MaxMem}

\* value heads of the batch's length, or two entries longer
MemoryHeadOutputs ==
    {[name \in {"extrinsic"} |-> [i \in 1..n |-> R(3, 10)]] :
        n \in {Len(batch.advantages), Len(batch.advantages) + 2}}

InitMemory ==
    \E seq_len \in 1..MaxSeqLen :
        Constructed("linear", DefaultHyperparameters, 2, {"extrinsic"}, seq_len) /\ NoCall

NextMemory ==
    \/ \E b \in MemoryBatches : UpdateDecayLearningRate(b)
    \/ \E lp \in LogProbOutputs, vals \in MemoryHeadOutputs : UpdateEvaluate(lp, vals)
    \/ UpdateSteps

SpecMemory == InitMemory /\ [][NextMemory]_vars

---------------------------------------------------------------------------
(* ppo_policy_loss and ppo_value_loss called on their own, on every input  *)
(* of a bounded set                                                        *)

\* shapes <<rows, columns>> of at most MaxLen entries
Shapes == {sh \in (1..MaxLen) \X (1..2) : sh[1] * sh[2] <= MaxLen}

LogProbs == {-2, -1, 0}
OldLogProbs == {-2, 0}
Advantages == {R(-1, 1), Zero, One, R(2, 1)}
Epsilons == {R(1, 10), R(1, 5)}
NewValues == {Zero, R(1, 10), R(3, 10)}
OldValues == {Zero, R(1, 10)}
Returns == {Zero, R(3, 10)}

Tensors1(n, S) == [1..n -> S]
Tensors2(n, k, S) == [1..n -> [1..k -> S]]

\* the optimizer as constructed, about to call ppo_policy_loss
InitPolicyLoss ==
    \E eps \in Epsilons, sh \in Shapes :
    \E adv \in Tensors1(sh[1], Advantages),
       lp \in Tensors2(sh[1], sh[2], LogProbs),
       old_lp \in Tensors2(sh[1], sh[2], OldLogProbs) :
        /\ Constructed("constant", [DefaultHyperparameters EXCEPT !.epsilon = eps],
                       2, {"extrinsic"}, 1)
        /\ pc = "call"
        /\ batch = [NoBatch EXCEPT !.advantages = adv, !.action_probs = old_lp,
                                   !.masks = [i \in 1..sh[1] |-> 1]]
        /\ log_probs = lp
        /\ step_reads = <<>>
        /\ decay_learning_rate = Zero
        /\ decay_epsilon = Zero
        /\ decay_beta = Zero
        /\ old_values = EmptyDict
        /\ returns = EmptyDict
        /\ memories = NoMemories
        /\ values = EmptyDict
        /\ value_loss = Zero
        /\ policy_loss = Zero
        /\ update_stats = NoStats

\* policy_loss = self.ppo_policy_loss(advantages, log_probs, old_log_probs, masks)
PolicyLossCall ==
    /\ pc = "call"
    /\ policy_loss' = ppo_policy_loss(batch.advantages, log_probs,
                                      batch.action_probs, batch.masks)
    /\ pc' = "called"
    /\ UNCHANGED <<config_vars, current_step, optim_vars, batch, step_reads,
                   decay_learning_rate, decay_epsilon, decay_beta, old_values, returns,
                   memories, log_probs, values, value_loss, update_stats, book_vars>>

\* the same call again with every advantage negated
PolicyLossCallNegated ==
    /\ pc = "called"
    /\ batch' = [batch EXCEPT !.advantages =
                     [i \in 1..Len(batch.advantages) |-> RNeg(batch.advantages[i])]]
    /\ prev_policy_loss' = policy_loss
    /\ policy_loss' = ppo_policy_loss(batch'.advantages, log_probs,
                                      batch.action_probs, batch.masks)
    /\ pc' = "negated"
    /\ UNCHANGED <<config_vars, current_step, optim_vars, step_reads,
                   decay_learning_rate, decay_epsilon, decay_beta, old_values, returns,
                   memories, log_probs, values, value_loss, update_stats, calls,
                   completed, trace, pre, outcome>>

NextPolicyLoss == PolicyLossCall \/ PolicyLossCallNegated

SpecPolicyLoss == InitPolicyLoss /\ [][NextPolicyLoss]_vars

\* sets of heads and tensor lengths of at most MaxLen entries in all
HeadShapes == {hs \in (SUBSET AllSignals) \X (1..MaxLen) :
                  hs[1] # {} /\ Cardinality(hs[1]) * hs[2] <= MaxLen}

\* the optimizer as constructed, about to call ppo_value_loss
InitValueLoss ==
    \E eps \in Epsilons, hs \in HeadShapes :
    \E vals \in [hs[1] -> Tensors1(hs[2], NewValues)],
       old_vals \in [hs[1] -> Tensors1(hs[2], OldValues)],
       rets \in [hs[1] -> Tensors1(hs[2], Returns)] :
        /\ Constructed("constant", DefaultHyperparameters, 2, hs[1], 1)
        /\ pc = "call"
        /\ batch = NoBatch
        /\ log_probs = <<>>
        /\ step_reads = <<>>
        /\ decay_learning_rate = Zero
        /\ decay_epsilon = eps
        /\ decay_beta = Zero
        /\ old_values = old_vals
        /\ returns = rets
        /\ memories = NoMemories
        /\ values = vals
        /\ value_loss = Zero
        /\ policy_loss = Zero
        /\ update_stats = NoStats

\* value_loss = self.ppo_value_loss(values, old_values, returns, decay_epsilon)
ValueLossCall ==
    /\ pc = "call"
    /\ ~ValueLossRaises(values, old_values, returns)
    /\ value_loss' = ppo_value_loss(values, old_values, returns, decay_epsilon)
    /\ pc' = "called"
    /\ UNCHANGED <<config_vars, current_step, optim_vars, batch, step_reads,
                   decay_learning_rate, decay_epsilon, decay_beta, old_values, returns,
                   memories, log_probs, values, policy_loss, update_stats, book_vars>>

NextValueLoss == ValueLossCall

SpecValueLoss == InitValueLoss /\ [][NextValueLoss]_vars

---------------------------------------------------------------------------
(* Properties *)

Last(t) == t[Len(t)]

IsPrefix(a, b) == Len(a) <= Len(b) /\ \A i \in 1..Len(a) : a[i] = b[i]

\* the steps of a completed update call, in order
FullOrder == <<"decay", "assemble", "evaluate", "loss", "apply_learning_rate",
               "zero_grad", "backward", "step">>

\* positions of update at which the batch has been assembled
Assembled == pc \in {"evaluate", "loss", "apply_learning_rate", "zero_grad",
                     "backward", "step", "stats", "return"}

\* positions of update at which both losses have been computed
LossComputed == pc \in {"apply_learning_rate", "zero_grad", "backward", "step",
                        "stats", "return"}

\* positions of update at which optimizer.step() has run
Stepped == pc \in {"stats", "return"}

\* C1: when update is about to return, the clip range the policy loss used
\* is the decayed epsilon that the value loss was given and that the call
\* reports as the epsilon metric.
C1_OneDecayedEpsilon ==
    pc = "return" =>
        /\ policy_decay_epsilon = decay_epsilon
        /\ update_stats.epsilon = decay_epsilon

\* C2: after an update call that raised, the optimizer state (learning rate,
\* accumulated gradients, moment estimates) and the parameters are exactly
\* what they were before the call.
C2_AllOrNothing == outcome = "raised" => OptimizerState = pre

\* C2, amended: after a call that raised, the moment estimates and the
\* parameters are what they were before the call, and so are the learning
\* rate and the accumulated gradients unless it was back-propagation that
\* raised; up to the point where the learning rate is applied nothing of the
\* optimizer has changed; moments and parameters change only in a call whose
\* steps all completed.
C2_NoPartialUpdate ==
    /\ outcome = "raised" => moments = pre.moments /\ params = pre.params
    /\ (outcome = "raised" /\ Last(trace) # "backward") => OptimizerState = pre
    /\ (outcome = "running" /\ ~LossComputed) => OptimizerState = pre
    /\ (moments # pre.moments \/ params # pre.params) =>
           trace = FullOrder /\ (Stepped \/ outcome = "returned")

\* C2 witness: back-propagation raised in a call that had already changed
\* the learning rate and cleared the gradients of an earlier call
C2_RaisedInBackward ==
    /\ outcome = "raised"
    /\ Last(trace) = "backward"
    /\ opt_lr # pre.lr
    /\ grads # pre.grads
    /\ pre.grads # {}

\* C3: the three decays of one update call are computed from one value of
\* the global step.
C3_StepReadOnce == \A i, j \in DOMAIN step_reads : step_reads[i] = step_reads[j]

\* C4: the steps of a call happen in the order decay, assemble, evaluate
\* (once), loss, apply learning rate, clear gradients, back-propagate,
\* optimizer step, and the call then returns to Idle; the number of optimizer
\* steps is the number of completed calls, and every optimizer step used the
\* gradient of its own call and of no other.
C4_OneStepPerCompletedCall ==
    /\ IsPrefix(trace, FullOrder)
    /\ (Stepped \/ outcome = "returned") => trace = FullOrder
    /\ outcome = "returned" => pc = "idle"
    /\ Len(moments) = Len(completed) + (IF Stepped THEN 1 ELSE 0)
    /\ params = Len(moments)
    /\ \A i \in 1..Len(completed) : moments[i] = {completed[i]}
    /\ Stepped => moments[Len(moments)] = {calls}

\* C4 witness: two update calls have completed
C4_TwoCompleted == outcome = "returned" /\ completed = <<1, 2>>

\* a decayed value x, computed at step `step`, lies between its floor and
\* the configured initial value, is the initial value at step 0 and the floor
\* from max_steps on
WithinDecayRange(x, floor, initial, step) ==
    /\ RLe(floor, x)
    /\ RLe(x, initial)
    /\ step = 0 => x = initial
    /\ step >= max_steps => x = floor

\* C8: with the linear schedule, every decayed hyperparameter of update is
\* never below its floor nor above its configured initial value, is the
\* initial value at step 0 and the floor at every step >= max_steps.
C8_LinearDecayRange ==
    decay_schedule = "linear" =>
        /\ Len(step_reads) >= 1 =>
               WithinDecayRange(decay_learning_rate, LearningRateFloor,
                                hyperparameters.learning_rate, step_reads[1])
        /\ Len(step_reads) >= 2 =>
               WithinDecayRange(decay_epsilon, EpsilonFloor,
                                hyperparameters.epsilon, step_reads[2])
        /\ Len(step_reads) >= 3 =>
               WithinDecayRange(decay_beta, BetaFloor,
                                hyperparameters.beta, step_reads[3])

\* C8, amended: the same, for every hyperparameter whose configured initial
\* value is not below its floor.
C8_LinearDecayRangeAboveFloor ==
    decay_schedule = "linear" =>
        /\ (Len(step_reads) >= 1 /\ RLe(LearningRateFloor, hyperparameters.learning_rate)) =>
               WithinDecayRange(decay_learning_rate, LearningRateFloor,
                                hyperparameters.learning_rate, step_reads[1])
        /\ (Len(step_reads) >= 2 /\ RLe(EpsilonFloor, hyperparameters.epsilon)) =>
               WithinDecayRange(decay_epsilon, EpsilonFloor,
                                hyperparameters.epsilon, step_reads[2])
        /\ (Len(step_reads) >= 3 /\ RLe(BetaFloor, hyperparameters.beta)) =>
               WithinDecayRange(decay_beta, BetaFloor,
                                hyperparameters.beta, step_reads[3])

\* C8 witness: a linear schedule with every initial value above its floor;
\* epsilon was decayed part of the way and beta down to its floor
C8_DecayedPartWay ==
    /\ decay_schedule = "linear"
    /\ Len(step_reads) = 3
    /\ RLe(EpsilonFloor, hyperparameters.epsilon)
    /\ RLe(BetaFloor, hyperparameters.beta)
    /\ RLt(EpsilonFloor, decay_epsilon)
    /\ RLt(decay_epsilon, hyperparameters.epsilon)
    /\ step_reads[3] >= max_steps
    /\ decay_beta = BetaFloor

\* C9: the value loss of an update call is the mean of the head losses over
\* the set of active reward signals, one head loss per reward signal, and the
\* losses are computed only when the evaluator's heads are that set.
C9_ValueLossOverRewardSignals ==
    LossComputed =>
        /\ DOMAIN values = reward_signals
        /\ LET names == SetToSeq(reward_signals)
           IN  value_loss = Mean([k \in 1..Len(names) |->
                   head_value_loss(values[names[k]], old_values[names[k]],
                                   returns[names[k]], decay_epsilon)])

\* C10: the memories handed to the evaluator are the snapshots at indices
\* 0, L, 2L, ... below n, in that order, one per block of L steps; with n = 0
\* they are the empty list, not a stacked tensor.
C10_MemorySnapshots ==
    Assembled =>
        LET n == Len(batch.memory)
            L == sequence_length
            k == Len(memories.data)
        IN  /\ k = (n + L - 1) \div L
            /\ n % L = 0 => k * L = n
            /\ \A j \in 1..k :
                   /\ (j - 1) * L < n
                   /\ memories.data[j] = batch.memory[(j - 1) * L + 1]
                   /\ memories.data[j] = (j - 1) * L
            /\ n = 0 => memories = NoMemories
            /\ n > 0 => memories.stacked

\* C10 witness: a memory field of four steps with sequence_length 2
C10_TwoSnapshotsOfFour ==
    /\ pc = "evaluate"
    /\ Len(batch.memory) = 4
    /\ sequence_length = 2
    /\ memories = [stacked |-> TRUE, data |-> <<0, 2>>]

\* the ratio lies in the clip range of the policy loss
InClipRange(r) ==
    /\ RLe(RSub(One, policy_decay_epsilon), r)
    /\ RLe(r, RAdd(One, policy_decay_epsilon))

\* the index pairs of a 2-D tensor of at most two columns
Entries(m) == {e \in (1..Len(m)) \X (1..2) : e[2] <= Len(m[e[1]])}

\* the ratios of the call in progress
Ratios == r_theta(log_probs, batch.action_probs)

\* C5: the policy loss of the negated advantages is the negation of the
\* policy loss of the advantages.
C5_NegationFlipsSign == pc = "negated" => policy_loss = RNeg(prev_policy_loss)

\* C5, amended: the same, when at every step the ratio lies in
\* [1-eps, 1+eps] or the advantage is 0.
C5_NegationFlipsSignInRange ==
    (/\ pc = "negated"
     /\ \A e \in Entries(Ratios) :
            InClipRange(Ratios[e[1]][e[2]]) \/ batch.advantages[e[1]] = Zero)
    => policy_loss = RNeg(prev_policy_loss)

\* C5 witness: negated advantages, every ratio in the clip range, a ratio
\* other than 1 with an advantage other than 0
C5_NegatedInRange ==
    /\ pc = "negated"
    /\ \A e \in Entries(Ratios) : InClipRange(Ratios[e[1]][e[2]])
    /\ \E e \in Entries(Ratios) :
           Ratios[e[1]][e[2]] # One /\ batch.advantages[e[1]] = R(-2, 1)
    /\ policy_loss # Zero

\* the squared error of a head without clipping, averaged over the steps
UnclippedError(head, returns_tensor) ==
    Mean([i \in 1..Len(head) |-> RSquare(RSub(returns_tensor[i], head[i]))])

\* max((ret - new)^2, (ret - (old + clip(new - old, -eps, +eps)))^2)
StepValueLoss(new, old, ret, eps) ==
    LET d == RSub(new, old)
        c == IF RLt(d, RNeg(eps)) THEN RNeg(eps) ELSE IF RLt(eps, d) THEN eps ELSE d
        a == RSquare(RSub(ret, new))
        b == RSquare(RSub(ret, RAdd(old, c)))
    IN  IF RLt(a, b) THEN b ELSE a

HeadNames == SetToSeq(DOMAIN values)

\* C6: every head loss is the mean over the steps of the larger of the
\* unclipped and the clipped squared error; it is never below the mean
\* unclipped squared error and is 0 when old value, new value and return
\* agree at every step; the value loss is the mean of the head losses.
C6_ValueLossPessimistic ==
    pc = "called" =>
        /\ \A name \in DOMAIN values :
               LET hl == head_value_loss(values[name], old_values[name],
                                         returns[name], decay_epsilon)
               IN  /\ hl = Mean([i \in 1..Len(values[name]) |->
                               StepValueLoss(values[name][i], old_values[name][i],
                                             returns[name][i], decay_epsilon)])
                   /\ RLe(UnclippedError(values[name], returns[name]), hl)
                   /\ (values[name] = old_values[name] /\ values[name] = returns[name])
                          => hl = Zero
        /\ RLe(Mean([k \in 1..Len(HeadNames) |->
                   UnclippedError(values[HeadNames[k]], returns[HeadNames[k]])]),
               value_loss)
        /\ (\A name \in DOMAIN values :
                values[name] = old_values[name] /\ values[name] = returns[name])
               => value_loss = Zero

\* C6 witness: a head whose clipped error exceeds its unclipped error, and a
\* second head whose three tensors agree
C6_ClippedErrorLarger ==
    /\ pc = "called"
    /\ DOMAIN values = AllSignals
    /\ RLt(UnclippedError(values["extrinsic"], returns["extrinsic"]),
           head_value_loss(values["extrinsic"], old_values["extrinsic"],
                           returns["extrinsic"], decay_epsilon))
    /\ values["curiosity"] = old_values["curiosity"]
    /\ values["curiosity"] = returns["curiosity"]
    /\ value_loss # Zero

\* C7: the policy loss is the negative mean of min(r*A, clip(r)*A); where the
\* ratio lies in [1-eps, 1+eps] the objective is r*A; with ratio 1 at every
\* step the policy loss is -mean(advantages).
C7_PolicyLossClippedSurrogate ==
    pc = "called" =>
        LET obj == p_opt(batch.advantages, log_probs, batch.action_probs)
            direct == [i \in 1..Len(Ratios) |-> [j \in 1..Len(Ratios[i]) |->
                LET r == Ratios[i][j]
                    A == batch.advantages[i]
                    lo == RSub(One, policy_decay_epsilon)
                    hi == RAdd(One, policy_decay_epsilon)
                    c == IF RLt(r, lo) THEN lo ELSE IF RLt(hi, r) THEN hi ELSE r
                IN  IF RLe(RMul(r, A), RMul(c, A)) THEN RMul(r, A) ELSE RMul(c, A)]]
        IN  /\ RAdd(policy_loss, Mean2(direct)) = Zero
            /\ \A e \in Entries(Ratios) :
                   InClipRange(Ratios[e[1]][e[2]]) =>
                       obj[e[1]][e[2]] = RMul(Ratios[e[1]][e[2]], batch.advantages[e[1]])
            /\ (\A e \in Entries(Ratios) : Ratios[e[1]][e[2]] = One) =>
                   policy_loss = RNeg(Mean(batch.advantages))

\* C7 witness: matching log-probabilities and advantages [1, -1]: the loss is 0
C7_RatioOneEverywhere ==
    /\ pc = "called"
    /\ log_probs = batch.action_probs
    /\ batch.advantages = <<One, RNeg(One)>>
    /\ policy_loss = Zero

====
